---- MODULE Spec2Model ----
(***************************************************************************)
(* A model of sleap_io/model/instance.py: Point, PredictedPoint, Track,    *)
(* Instance and PredictedInstance, with the attrs-generated constructors,  *)
(* setattr hooks, validators and equality methods.                         *)
(*                                                                         *)
(* Every Python value is a record with a cls field naming its type.        *)
(* Floats are records: a NaN, or a number counted in units of 1e-8 (the    *)
(* absolute tolerance of numpy.isclose), so that 100000000 units are 1.0.  *)
(***************************************************************************)
EXTENDS Integers, Sequences, FiniteSets, TLC

VARIABLES
    pa,     \* a Point or PredictedPoint object
    pb,     \* a second Point or PredictedPoint object
    inst,   \* the Instance / PredictedInstance object under test, or None
    other,  \* a second Instance / PredictedInstance object, or None
    arg,    \* the argument handed to the call in progress
    ret     \* what the last call returned or raised

vars == <<pa, pb, inst, other, arg, ret>>

(***************************************************************************)
(* Bounds of the model.                                                    *)
(***************************************************************************)
\* The largest skeleton has MaxNodes nodes.
MaxNodes == 2
\* A mapping handed to `points` of a living Instance has at most MaxItems
\* entries (a reassignment of its own mapping has as many as it holds).
MaxItems == 1
\* Coordinates of the points that are compared range over 0..MaxCoord units
\* (and NaN); neighbouring values are within the tolerance of isclose.
MaxCoord == 2

(***************************************************************************)
(* Python values                                                           *)
(***************************************************************************)
None == [cls |-> "NoneType"]

NaN == [cls |-> "float", nan |-> TRUE, v |-> 0]

Num(n) == [cls |-> "float", nan |-> FALSE, v |-> n]

\* math.isnan
isnan(f) == f.nan

Abs(n) == IF n < 0 THEN -n ELSE n

\* numpy.isclose(a, b, equal_nan=True) with the default rtol = 1e-5 and
\* atol = 1e-8: |a - b| <= atol + rtol * |b|, in units of 1e-8 and
\* multiplied by 100000 to stay in the integers.
isclose(a, b) ==
    IF isnan(a) \/ isnan(b)
    THEN isnan(a) /\ isnan(b)
    ELSE Abs(a.v - b.v) * 100000 <= 100000 + Abs(b.v)

\* _point_comparison
_point_comparison(a, b) == isclose(a, b)

\* Point(x, y, visible, complete)
Point(x, y, visible, complete) ==
    [cls |-> "Point", x |-> x, y |-> y, visible |-> visible,
     complete |-> complete]

\* PredictedPoint(x, y, visible, complete, score)
PredictedPoint(x, y, visible, complete, score) ==
    [cls |-> "PredictedPoint", x |-> x, y |-> y, visible |-> visible,
     complete |-> complete, score |-> score]

\* A coordinate pair (a tuple, or a row of an array after tolist()).
Pair(x, y) == [cls |-> "pair", x |-> x, y |-> y]

\* The attrs-generated Point.__eq__ ignoring the flags.
BuggyPointEqCoordsOnly(a, b) ==
    /\ a.cls = b.cls
    /\ _point_comparison(a.x, b.x)
    /\ _point_comparison(a.y, b.y)

\* The attrs-generated __eq__ of Point and PredictedPoint: NotImplemented
\* (so False) for objects of another class, else every field with eq=True:
\* x and y through cmp_using(eq=_point_comparison), visible and complete
\* with ==, and for a PredictedPoint its score with == (scores of the
\* model are never NaN).
PointEq(a, b) ==
    /\ a.cls = b.cls
    /\ _point_comparison(a.x, b.x)
    /\ _point_comparison(a.y, b.y)
    /\ a.visible = b.visible
    /\ a.complete = b.complete
    /\ (a.cls = "PredictedPoint" => a.score = b.score)

\* Point.numpy() and PredictedPoint.numpy()
Point_numpy(p) ==
    IF p.cls = "PredictedPoint"
    THEN IF p.visible THEN <<p.x, p.y, p.score>> ELSE <<NaN, NaN, NaN>>
    ELSE IF p.visible THEN <<p.x, p.y>> ELSE <<NaN, NaN>>

\* Track(name): compared by identity, which id stands for.
Track(id, name) == [cls |-> "Track", id |-> id, name |-> name]

TrackEq(a, b) == a = b

(***************************************************************************)
(* The Skeleton collaborator                                               *)
(***************************************************************************)
NodeNames == <<"head", "tail", "thorax", "wing">>

Node(name) == [cls |-> "Node", name |-> name]

Str(name) == [cls |-> "str", name |-> name]

\* A node that belongs to no skeleton of the model, and a name none has.
ForeignNode == Node("antenna")

BadName == Str("nose")

Min(a, b) == IF a < b THEN a ELSE b

\* Skeleton(nodes) with the first n node names as its nodes
Skeleton(n) ==
    [cls |-> "Skeleton", nodes |-> [i \in 1..n |-> Node(NodeNames[i])]]

Skeletons == {Skeleton(n) : n \in 1..Min(MaxNodes, Len(NodeNames))}

\* len(skeleton)
SkeletonLen(sk) == Len(sk.nodes)

NodeSet(sk) == {sk.nodes[i] : i \in 1..Len(sk.nodes)}

\* skeleton.index(node), counted from 1
SkeletonIndex(sk, node) == CHOOSE i \in 1..Len(sk.nodes) : sk.nodes[i] = node

\* skeleton[name]: the lookup fails for a name the skeleton does not have.
SkeletonHas(sk, key) == \E i \in 1..Len(sk.nodes) : sk.nodes[i].name = key.name

SkeletonGet(sk, key) ==
    sk.nodes[CHOOSE i \in 1..Len(sk.nodes) : sk.nodes[i].name = key.name]

(***************************************************************************)
(* Instance and PredictedInstance                                          *)
(***************************************************************************)
Raise(e) == [ok |-> FALSE, err |-> e]

Return(v) == [ok |-> TRUE, val |-> v]

\* _POINT_TYPE of the class
_POINT_TYPE(cls) ==
    IF cls = "PredictedInstance" THEN "PredictedPoint" ELSE "Point"

\* A default point that is invisible only when both coordinates are NaN.
BuggyMakeDefaultPointBothNaN(cls, x, y) ==
    IF cls = "PredictedInstance"
    THEN PredictedPoint(x, y, ~(isnan(x) /\ isnan(y)), FALSE, Num(0))
    ELSE Point(x, y, ~(isnan(x) /\ isnan(y)), FALSE)

\* Instance._make_default_point: the point type's constructor with its
\* defaults (complete False, score 0.0) and visible inferred from NaN.
_make_default_point(cls, x, y) ==
    IF _POINT_TYPE(cls) = "PredictedPoint"
    THEN PredictedPoint(x, y, ~(isnan(x) \/ isnan(y)), FALSE, Num(0))
    ELSE Point(x, y, ~(isnan(x) \/ isnan(y)), FALSE)

\* Python containers: an array of rows, a list, a dict as the sequence of
\* its entries in insertion order (keys distinct).
NdArray(items) == [cls |-> "ndarray", items |-> items]

List(items) == [cls |-> "list", items |-> items]

Dict(items) == [cls |-> "dict", items |-> items]

Entry(k, v) == [key |-> k, val |-> v]

\* ndarray.tolist(): each row becomes a list of two floats.
tolist(a) == List(a.items)

\* A zip that pairs the points with the nodes from the last node back.
BuggyZipNodesFromEnd(sk, items) ==
    [cls |-> "dict",
     items |-> [i \in 1..Min(Len(sk.nodes), Len(items)) |->
                  [key |-> sk.nodes[Len(sk.nodes) + 1 - i], val |-> items[i]]]]

\* {node: pt for node, pt in zip(skeleton.nodes, points)}
ZipNodes(sk, items) ==
    Dict([i \in 1..Min(Len(sk.nodes), Len(items)) |->
            Entry(sk.nodes[i], items[i])])

\* node if type(node) == Node else self.skeleton[node]
KeyResolves(sk, key) == key.cls = "Node" \/ SkeletonHas(sk, key)

ResolveKey(sk, key) == IF key.cls = "Node" THEN key ELSE SkeletonGet(sk, key)

\* point if type(point) == self._POINT_TYPE else
\* self._make_default_point(*point); only a pair unpacks into (x, y).
ValResolves(cls, v) == v.cls = _POINT_TYPE(cls) \/ v.cls = "pair"

ResolveVal(cls, v) ==
    IF v.cls = _POINT_TYPE(cls) THEN v ELSE _make_default_point(cls, v.x, v.y)

\* A comprehension whose values run in the opposite order of its keys.
BuggyBuildDictMisaligned(cls, sk, entries) ==
    LET n == Len(entries)
        key(i) == IF entries[i].key.cls = "Node" THEN entries[i].key
                  ELSE SkeletonGet(sk, entries[i].key)
        last(k) == CHOOSE i \in 1..n :
                      key(i) = k /\ \A j \in (i + 1)..n : key(j) # k
    IN  [k \in {key(i) : i \in 1..n} |->
            IF entries[n + 1 - last(k)].val.cls = _POINT_TYPE(cls)
            THEN entries[n + 1 - last(k)].val
            ELSE _make_default_point(cls, entries[n + 1 - last(k)].val.x,
                                  entries[n + 1 - last(k)].val.y)]

\* {k: v for k, v in zip(keys, vals)}: of two entries that resolve to the
\* same node the later one gives the value.
BuildDict(cls, sk, entries) ==
    LET n == Len(entries)
        key(i) == ResolveKey(sk, entries[i].key)
        last(k) == CHOOSE i \in 1..n :
                      key(i) = k /\ \A j \in (i + 1)..n : key(j) # k
    IN  [k \in {key(i) : i \in 1..n} |-> ResolveVal(cls, entries[last(k)].val)]

\* missing_nodes: every node of the skeleton without an entry gets the
\* default point at (NaN, NaN).
FillMissing(cls, sk, m) ==
    [k \in DOMAIN m \cup NodeSet(sk) |->
        IF k \in DOMAIN m THEN m[k] ELSE _make_default_point(cls, NaN, NaN)]

\* Instance._convert_points(self, attr, points), self given by its class
\* and skeleton: the mapping it returns or the error it raises.
_convert_points(cls, sk, points) ==
    LET p1 == IF points.cls = "ndarray" THEN tolist(points) ELSE points
        p2 == IF p1.cls = "list" THEN ZipNodes(sk, p1.items) ELSE p1
        n  == Len(p2.items)
    IN  IF p1.cls = "list" /\ Len(p1.items) # SkeletonLen(sk)
        THEN Raise("ValueError")
        ELSE IF \E i \in 1..n : ~KeyResolves(sk, p2.items[i].key)
        THEN Raise("LookupError")
        ELSE IF \E i \in 1..n : ~ValResolves(cls, p2.items[i].val)
        THEN Raise("TypeError")
        ELSE Return(FillMissing(cls, sk, BuildDict(cls, sk, p2.items)))

\* A validator for the annotated type, Optional[PredictedInstance].
BuggyValidatorOptionalPredicted(v) == v.cls \in {"NoneType", "PredictedInstance"}

\* validators.instance_of(type(None)) on PredictedInstance.from_predicted
FromPredictedValidator(v) == v.cls = "NoneType"

\* Instance(points, skeleton, track, from_predicted): the attrs __init__
\* stores the fields, then __attrs_post_init__ normalizes points.
Instance(points, sk, track, fp) ==
    LET r == _convert_points("Instance", sk, points)
    IN  IF ~r.ok THEN r
        ELSE Return([cls |-> "Instance", points |-> r.val, skeleton |-> sk,
                     track |-> track, from_predicted |-> fp])

\* PredictedInstance(points, skeleton, track, from_predicted, score,
\* tracking_score): the attrs __init__ stores the fields, runs the
\* validator of from_predicted, then __attrs_post_init__.
PredictedInstance(points, sk, track, fp, score, tscore) ==
    LET r == _convert_points("PredictedInstance", sk, points)
    IN  IF ~FromPredictedValidator(fp) THEN Raise("TypeError")
        ELSE IF ~r.ok THEN r
        ELSE Return([cls |-> "PredictedInstance", points |-> r.val,
                     skeleton |-> sk, track |-> track, from_predicted |-> fp,
                     score |-> score, tracking_score |-> tscore])

\* The outcome of an assignment: whether it raised, and the object after it.
Assigned(self) == [ok |-> TRUE, self |-> self]

Refused(e, self) == [ok |-> FALSE, err |-> e, self |-> self]

\* An assignment that stores the zipped entries before the hook is done.
BuggySetPointsStoresFirst(self, value) ==
    LET r == _convert_points(self.cls, self.skeleton, value)
    IN  IF r.ok THEN Assigned([self EXCEPT !.points = r.val])
        ELSE Refused(r.err, [self EXCEPT !.points =
                 [k \in {} |-> _make_default_point(self.cls, NaN, NaN)]])

\* self.points = value: the on_setattr hook _convert_points runs first and
\* the attribute is stored only if it returns.
SetPoints(self, value) ==
    LET r == _convert_points(self.cls, self.skeleton, value)
    IN  IF r.ok THEN Assigned([self EXCEPT !.points = r.val])
        ELSE Refused(r.err, self)

\* self.from_predicted = value: a PredictedInstance validates on setattr.
SetFromPredicted(self, value) ==
    IF self.cls = "PredictedInstance" /\ ~FromPredictedValidator(value)
    THEN Refused("TypeError", self)
    ELSE Assigned([self EXCEPT !.from_predicted = value])

\* compare_points
compare_points(a, b) ==
    /\ DOMAIN a = DOMAIN b
    /\ \A node \in DOMAIN a : PointEq(a[node], b[node])

\* The attrs-generated __eq__ of Instance and PredictedInstance:
\* NotImplemented (so False) across classes, else every field: points
\* through cmp_using(eq=compare_points), skeleton, track and
\* from_predicted with ==, and for a PredictedInstance score and
\* tracking_score with ==.  A from_predicted that is not None is a
\* PredictedInstance, whose own from_predicted is None.
InstanceEqFlat(a, b) ==
    /\ a.cls = b.cls
    /\ compare_points(a.points, b.points)
    /\ a.skeleton = b.skeleton
    /\ TrackEq(a.track, b.track)
    /\ a.from_predicted = b.from_predicted
    /\ (a.cls = "PredictedInstance" =>
            a.score = b.score /\ a.tracking_score = b.tracking_score)

\* An __eq__ that compares the classes and the point mappings only.
BuggyInstanceEqPointsOnly(a, b) ==
    /\ a.cls = b.cls
    /\ compare_points(a.points, b.points)

InstanceEq(a, b) ==
    /\ a.cls = b.cls
    /\ compare_points(a.points, b.points)
    /\ a.skeleton = b.skeleton
    /\ TrackEq(a.track, b.track)
    /\ IF a.from_predicted.cls = "NoneType" \/ b.from_predicted.cls = "NoneType"
       THEN a.from_predicted.cls = b.from_predicted.cls
       ELSE InstanceEqFlat(a.from_predicted, b.from_predicted)
    /\ (a.cls = "PredictedInstance" =>
            a.score = b.score /\ a.tracking_score = b.tracking_score)

\* Instance.n_visible
n_visible(self) == Cardinality({k \in DOMAIN self.points : self.points[k].visible})

\* Instance.numpy() and PredictedInstance.numpy(): a NaN array with the
\* row of every visible point written at skeleton.index(node), which
\* raises ValueError for a node the skeleton does not have.
Instance_numpy(self) ==
    LET sk == self.skeleton
        pts == self.points
        nan_row == IF self.cls = "PredictedInstance"
                   THEN <<NaN, NaN, NaN>> ELSE <<NaN, NaN>>
        at(i) == {k \in DOMAIN pts : pts[k].visible /\ SkeletonIndex(sk, k) = i}
    IN  IF \E k \in DOMAIN pts : pts[k].visible /\ k \notin NodeSet(sk)
        THEN Raise("ValueError")
        ELSE Return([i \in 1..Len(sk.nodes) |->
                        IF at(i) = {} THEN nan_row
                        ELSE Point_numpy(pts[CHOOSE k \in at(i) : TRUE])])

\* Instance.from_numpy(points, skeleton, track)
Instance_from_numpy(points, sk, track) == Instance(points, sk, track, None)

\* A from_numpy that infers visible from NaN as Instance.from_numpy does.
BuggyPredictedFromNumpyInfersVisible(points, scores, iscore, sk, tscore, track) ==
    LET k == Min(Len(sk.nodes), Min(Len(points.items), Len(scores.items)))
        node_points ==
            Dict([i \in 1..k |->
                Entry(sk.nodes[i],
                      PredictedPoint(points.items[i].x, points.items[i].y,
                                     ~(isnan(points.items[i].x) \/ isnan(points.items[i].y)),
                                     FALSE, scores.items[i]))])
    IN  PredictedInstance(node_points, sk, track, None, iscore, tscore)

\* A from_numpy that checks the lengths of its arrays.
BuggyPredictedFromNumpyChecksLength(points, scores, iscore, sk, tscore, track) ==
    LET node_points ==
            Dict([i \in 1..Min(Len(points.items), Len(scores.items)) |->
                Entry(sk.nodes[i],
                      PredictedPoint(points.items[i].x, points.items[i].y,
                                     TRUE, FALSE, scores.items[i]))])
    IN  IF Len(points.items) # Len(sk.nodes) \/ Len(scores.items) # Len(sk.nodes)
        THEN Raise("ValueError")
        ELSE PredictedInstance(node_points, sk, track, None, iscore, tscore)

\* PredictedInstance.from_numpy(points, point_scores, instance_score,
\* skeleton, tracking_score, track): zip stops at the shortest of
\* skeleton.nodes, points and point_scores.
PredictedInstance_from_numpy(points, scores, iscore, sk, tscore, track) ==
    LET k == Min(Len(sk.nodes), Min(Len(points.items), Len(scores.items)))
        node_points ==
            Dict([i \in 1..k |->
                Entry(sk.nodes[i],
                      PredictedPoint(points.items[i].x, points.items[i].y,
                                     TRUE, FALSE, scores.items[i]))])
    IN  PredictedInstance(node_points, sk, track, None, iscore, tscore)

(***************************************************************************)
(* Inputs of the model                                                     *)
(***************************************************************************)
\* Sequences over S of length lo..hi.
SeqsOf(S, lo, hi) == UNION {[1..n -> S] : n \in lo..hi}

\* Rows of an array: both coordinates numbers, one NaN, both NaN.
SampleRows ==
    {Pair(Num(1), Num(3)), Pair(Num(0), NaN), Pair(NaN, Num(1)), Pair(NaN, NaN)}

\* Point objects whose flags differ from the ones _make_default_point infers.
SamplePoint == Point(Num(1), Num(3), FALSE, TRUE)

SamplePredictedPoint == PredictedPoint(NaN, Num(3), TRUE, TRUE, Num(5))

\* Values of a list or a mapping handed to `points`.
SampleValues == {Pair(Num(1), Num(3)), SamplePoint, SamplePredictedPoint}

\* Keys of a mapping handed to `points`: nodes and names of the skeletons,
\* a node of no skeleton, a name of no skeleton.
SampleKeys ==
    LET names == {NodeNames[i] : i \in 1..Min(MaxNodes, Len(NodeNames))}
    IN  {Node(n) : n \in names} \cup {Str(n) : n \in names}
            \cup {ForeignNode, BadName}

ArrayInputs ==
    {NdArray(r) : r \in SeqsOf({Pair(Num(1), Num(3)), Pair(Num(0), NaN)},
                               0, MaxNodes + 1)}

ListInputs == {List(v) : v \in SeqsOf(SampleValues, 0, MaxNodes + 1)}

DictInputs ==
    {Dict(e) : e \in {q \in SeqsOf({Entry(k, v) : k \in SampleKeys, v \in SampleValues},
                                     0, MaxItems) :
                        \A i, j \in 1..Len(q) : i # j => q[i].key # q[j].key}}

PointsInputs == ArrayInputs \cup ListInputs \cup DictInputs

SampleTrack == Track(1, "a")

\* A second Track object with the same name.
SampleTrackTwin == Track(2, "a")

\* A PredictedInstance and an Instance to hand to from_predicted.
SamplePredictedInstance ==
    PredictedInstance(Dict(<<>>), Skeleton(1), None, None, Num(0), Num(0)).val

SampleInstance == Instance(Dict(<<>>), Skeleton(1), None, None).val

\* The kind of an input: a sequence of the wrong length, a mapping with a
\* name the skeleton does not have, or neither.
InputKind(sk, in) ==
    IF in.cls \in {"ndarray", "list"}
    THEN IF Len(in.items) # SkeletonLen(sk) THEN "bad length" ELSE "sequence"
    ELSE IF \E i \in 1..Len(in.items) :
                in.items[i].key.cls = "str" /\ ~SkeletonHas(sk, in.items[i].key)
    THEN "bad name" ELSE "mapping"

\* The outcome of a call, as the caller sees it.
Outcome(op, kind, r) ==
    [op |-> op, kind |-> kind, ok |-> r.ok, err |-> IF r.ok THEN "" ELSE r.err]

NoRet == [op |-> "", kind |-> "", ok |-> TRUE, err |-> ""]

\* The dict an Instance's points attribute holds, in any insertion order.
DictsOf(m) ==
    {Dict(e) : e \in {q \in [1..Cardinality(DOMAIN m) -> {Entry(k, m[k]) : k \in DOMAIN m}] :
                        \A i, j \in DOMAIN q : i # j => q[i] # q[j]}}

(***************************************************************************)
(* The life of one Instance: constructed once, then its points are         *)
(* assigned any number of times.                                           *)
(***************************************************************************)
InitInstance ==
    /\ pa = None /\ pb = None
    /\ inst = None /\ other = None
    /\ arg = None
    /\ ret = NoRet

\* inst = Instance(points, skeleton, track, from_predicted)
CallNewInstance ==
    /\ inst = None
    /\ \E in \in PointsInputs, sk \in Skeletons,
          tf \in {<<None, None>>, <<SampleTrack, SamplePredictedInstance>>} :
        LET r == Instance(in, sk, tf[1], tf[2])
        IN  /\ inst' = IF r.ok THEN r.val ELSE None
            /\ ret' = Outcome("new", InputKind(sk, in), r)
    /\ UNCHANGED <<pa, pb, other, arg>>

\* inst = PredictedInstance(points, skeleton, track)
CallNewPredictedInstance ==
    /\ inst = None
    /\ \E in \in PointsInputs, sk \in Skeletons, track \in {None, SampleTrack} :
        LET r == PredictedInstance(in, sk, track, None, Num(0), Num(0))
        IN  /\ inst' = IF r.ok THEN r.val ELSE None
            /\ ret' = Outcome("new", InputKind(sk, in), r)
    /\ UNCHANGED <<pa, pb, other, arg>>

\* inst.points = value
CallSetPoints ==
    /\ inst # None
    /\ \E in \in PointsInputs :
        LET r == SetPoints(inst, in)
        IN  /\ inst' = r.self
            /\ ret' = Outcome("set", InputKind(inst.skeleton, in), r)
    /\ UNCHANGED <<pa, pb, other, arg>>

\* inst.points = inst.points
CallReassign ==
    /\ inst # None
    /\ \E in \in DictsOf(inst.points) :
        LET r == SetPoints(inst, in)
        IN  /\ inst' = r.self
            /\ ret' = Outcome("reassign", "mapping", r)
    /\ UNCHANGED <<pa, pb, other, arg>>

NextInstance ==
    \/ CallNewInstance
    \/ CallNewPredictedInstance
    \/ CallSetPoints
    \/ CallReassign

SpecInstance == InitInstance /\ [][NextInstance]_vars

\* C1: in every reachable state the key set of instance.points is exactly
\* the node set of the instance's skeleton.
C1_KeysAreSkeletonNodes ==
    inst # None => DOMAIN inst.points = NodeSet(inst.skeleton)

\* C3: a list or array of the wrong length raises ValueError and a mapping
\* with an unresolvable name raises the skeleton's lookup error, at
\* construction and at assignment alike; a call that raises yields no
\* Instance (construction) or leaves the Instance as it was (assignment).
C3_FailureAtomic ==
    /\ [](ret.kind = "bad length" => ~ret.ok /\ ret.err = "ValueError")
    /\ [](ret.kind = "bad name" => ~ret.ok /\ ret.err = "LookupError")
    /\ [][~ret'.ok => inst' = inst]_vars

C3_Witness ==
    /\ inst # None
    /\ inst.track = SampleTrack
    /\ ret.op = "set" /\ ~ret.ok /\ ret.kind = "bad name"
    /\ \E k \in DOMAIN inst.points : inst.points[k] = SamplePoint

\* A mapping is normalized for an instance: its keys are exactly the nodes
\* of the skeleton and every value is of the instance's point type.
Normalized(self) ==
    /\ DOMAIN self.points = NodeSet(self.skeleton)
    /\ \A k \in DOMAIN self.points : self.points[k].cls = _POINT_TYPE(self.cls)

\* C8: assigning an instance's normalized points mapping to its points
\* succeeds and leaves every node with the same point, flags included.
C8_NormalizeIdempotent ==
    [][(ret'.op = "reassign" /\ Normalized(inst)) => (ret'.ok /\ inst' = inst)]_vars

C8_Witness ==
    /\ inst # None
    /\ ret.op = "reassign" /\ ret.ok
    /\ Normalized(inst)
    /\ \E k \in DOMAIN inst.points :
          inst.points[k].complete /\ ~inst.points[k].visible /\ ~isnan(inst.points[k].x)

(***************************************************************************)
(* Point and PredictedPoint: two objects are drawn, then compared.         *)
(***************************************************************************)
Coords == {NaN} \cup {Num(n) : n \in 0..MaxCoord}

Scores == {Num(0), Num(5)}

AllPoints ==
    {Point(x, y, v, c) : x \in Coords, y \in Coords, v \in BOOLEAN, c \in BOOLEAN}
    \cup {PredictedPoint(xy[1], xy[2], vc[1], vc[2], s) :
            xy \in Coords \X Coords, vc \in BOOLEAN \X BOOLEAN, s \in Scores}

\* The value a call returned.
Result(op, val) == [op |-> op, val |-> val]

InitPoint ==
    /\ pa \in AllPoints /\ pb \in AllPoints
    /\ inst = None /\ other = None
    /\ arg = None
    /\ ret = NoRet

\* pa == pb
CallPointEq ==
    /\ ret' = Result("eq", PointEq(pa, pb))
    /\ UNCHANGED <<pa, pb, inst, other, arg>>

\* pa.numpy()
CallPointNumpy ==
    /\ ret' = Result("numpy", Point_numpy(pa))
    /\ UNCHANGED <<pa, pb, inst, other, arg>>

NextPoint ==
    \/ CallPointEq
    \/ CallPointNumpy

SpecPoint == InitPoint /\ [][NextPoint]_vars

Reversed(sk) ==
    [sk EXCEPT !.nodes = [i \in 1..Len(sk.nodes) |-> sk.nodes[Len(sk.nodes) + 1 - i]]]

EqSkeletons == {Skeleton(Min(MaxNodes, Len(NodeNames))),
                Reversed(Skeleton(Min(MaxNodes, Len(NodeNames))))}

\* Lists of one value per node: two coordinate pairs within the tolerance
\* of each other, and a Point with the same coordinates and other flags.
EqInputs(cls) ==
    {List(v) : v \in SeqsOf({Pair(Num(1), Num(3)), Pair(Num(2), Num(3)),
                             IF cls = "Instance" THEN SamplePoint
                             ELSE SamplePredictedPoint},
                            Min(MaxNodes, Len(NodeNames)),
                            Min(MaxNodes, Len(NodeNames)))}

Tracks == {None, SampleTrack, SampleTrackTwin}

\* Every Instance and PredictedInstance the constructors give for the
\* inputs above.
Constructed ==
    {Instance(in, sk, t, fp).val :
        in \in EqInputs("Instance"), sk \in EqSkeletons, t \in Tracks,
        fp \in {None, SamplePredictedInstance}}
    \cup
    {PredictedInstance(in, sk, t, None, sc, Num(0)).val :
        in \in EqInputs("PredictedInstance"), sk \in EqSkeletons, t \in Tracks,
        sc \in Scores}

InitEq ==
    /\ pa = None /\ pb = None
    /\ inst = None /\ other = None
    /\ arg = None
    /\ ret = NoRet

\* inst = Instance(...) or PredictedInstance(...)
CallNewFirst ==
    /\ inst = None
    /\ inst' \in Constructed
    /\ UNCHANGED <<pa, pb, other, arg, ret>>

\* other = Instance(...) or PredictedInstance(...)
CallNewSecond ==
    /\ other = None
    /\ other' \in Constructed
    /\ UNCHANGED <<pa, pb, inst, arg, ret>>

\* inst == other
CallInstanceEq ==
    /\ inst # None /\ other # None
    /\ ret' = Result("eq", InstanceEq(inst, other))
    /\ UNCHANGED <<pa, pb, inst, other, arg>>

NextEq ==
    \/ CallNewFirst
    \/ CallNewSecond
    \/ CallInstanceEq

SpecEq == InitEq /\ [][NextEq]_vars

\* The point mappings have the same nodes and, node by node, equal points.
SamePoints(a, b) ==
    /\ DOMAIN a.points = DOMAIN b.points
    /\ \A k \in DOMAIN a.points : PointEq(a.points[k], b.points[k])

\* C5 as stated: two Instances of one class are equal iff their point
\* mappings are equal; skeleton, track and from_predicted take no part.
C5_EqPointsOnly ==
    (ret.op = "eq" /\ inst.cls = other.cls) =>
        (ret.val <=> SamePoints(inst, other))

\* C5 as amended: two Instances are equal iff they are of the same class,
\* their point mappings are equal, and skeleton, track (a Track only
\* equals itself), from_predicted and, for PredictedInstances, score and
\* tracking_score are equal.
C5_EqAllFields ==
    ret.op = "eq" =>
        (ret.val <=> /\ inst.cls = other.cls
                     /\ SamePoints(inst, other)
                     /\ inst.skeleton = other.skeleton
                     /\ inst.track = other.track
                     /\ inst.from_predicted = other.from_predicted
                     /\ (inst.cls = "PredictedInstance" =>
                            /\ inst.score = other.score
                            /\ inst.tracking_score = other.tracking_score))

C5_Witness ==
    /\ ret.op = "eq" /\ ret.val
    /\ inst.points # other.points
    /\ inst.track = SampleTrack

(***************************************************************************)
(* One assignment of coordinate pairs to the nodes of a skeleton is drawn, *)
(* then handed to the constructor in each of the accepted shapes.          *)
(***************************************************************************)
Shapes == {"array", "list", "by node", "by name"}

Orders(n) == {f \in [1..n -> 1..n] : \A i, j \in 1..n : i # j => f[i] # f[j]}

\* The rows as an (n_nodes, 2) array, as a list of pairs in skeleton order,
\* or as a dict keyed by Node or by node name whose entries were inserted
\* in the order perm.
InShape(shape, sk, rows, perm) ==
    CASE shape = "array" -> NdArray(rows)
      [] shape = "list" -> List(rows)
      [] shape = "by node" ->
            Dict([i \in 1..Len(rows) |-> Entry(sk.nodes[perm[i]], rows[perm[i]])])
      [] shape = "by name" ->
            Dict([i \in 1..Len(rows) |->
                    Entry(Str(sk.nodes[perm[i]].name), rows[perm[i]])])

\* cls(points=..., skeleton=...), an array going through Instance.from_numpy
Build(cls, shape, in, sk) ==
    IF cls = "PredictedInstance"
    THEN PredictedInstance(in, sk, None, None, Num(0), Num(0))
    ELSE IF shape = "array" THEN Instance_from_numpy(in, sk, None)
    ELSE Instance(in, sk, None, None)

NoBuild == [op |-> "", a |-> "", b |-> "", val |-> None]

InitShapes ==
    /\ pa = None /\ pb = None
    /\ inst = None /\ other = None
    /\ \E cls \in {"Instance", "PredictedInstance"}, sk \in Skeletons :
         \E rows \in [1..Len(sk.nodes) -> SampleRows] :
            arg = [cls |-> cls, skeleton |-> sk, rows |-> rows]
    /\ ret = NoBuild

\* inst = cls(points in one shape, skeleton)
CallBuildFirst ==
    /\ \E shape \in Shapes, perm \in Orders(Len(arg.rows)) :
        LET r == Build(arg.cls, shape,
                       InShape(shape, arg.skeleton, arg.rows, perm), arg.skeleton)
        IN  /\ inst' = IF r.ok THEN r.val ELSE None
            /\ ret' = [ret EXCEPT !.op = "build", !.a = shape, !.val = None]
    /\ UNCHANGED <<pa, pb, other, arg>>

\* other = cls(points in one shape, skeleton)
CallBuildSecond ==
    /\ \E shape \in Shapes, perm \in Orders(Len(arg.rows)) :
        LET r == Build(arg.cls, shape,
                       InShape(shape, arg.skeleton, arg.rows, perm), arg.skeleton)
        IN  /\ other' = IF r.ok THEN r.val ELSE None
            /\ ret' = [ret EXCEPT !.op = "build", !.b = shape, !.val = None]
    /\ UNCHANGED <<pa, pb, inst, arg>>

\* inst.numpy()
CallShapeNumpy ==
    /\ inst # None
    /\ ret' = [ret EXCEPT !.op = "numpy", !.val = Instance_numpy(inst)]
    /\ UNCHANGED <<pa, pb, inst, other, arg>>

NextShapes ==
    \/ CallBuildFirst
    \/ CallBuildSecond
    \/ CallShapeNumpy

SpecShapes == InitShapes /\ [][NextShapes]_vars

\* C2: the constructor accepts the same coordinates in each shape, and
\* two Instances built from two shapes hold the same point mapping: the
\* nodes of the skeleton, each with the same coordinates and flags.
C2_ShapeInvariance ==
    /\ ret.a # "" => inst # None
    /\ ret.b # "" => other # None
    /\ (inst # None /\ other # None) =>
          /\ DOMAIN inst.points = NodeSet(arg.skeleton)
          /\ inst.points = other.points

C2_Witness ==
    /\ ret.a = "array" /\ ret.b = "by name"
    /\ inst # None /\ other # None
    /\ Len(arg.rows) > 1
    /\ arg.rows[1] # arg.rows[2]
    /\ \E k \in DOMAIN other.points :
          ~other.points[k].visible /\ ~isnan(other.points[k].x)

\* C6 as stated: Instance.from_numpy(arr, S).numpy() equals arr element by
\* element, NaN equal to NaN, rows with one NaN coordinate included.
C6_RoundTripExact ==
    (ret.op = "numpy" /\ ret.a = "array" /\ arg.cls = "Instance") =>
        /\ ret.val.ok
        /\ \A i \in 1..Len(arg.rows) :
              ret.val.val[i] = <<arg.rows[i].x, arg.rows[i].y>>

\* C6 as amended: row i of Instance.from_numpy(arr, S).numpy() equals row
\* i of arr when neither coordinate of that row is NaN, and is [NaN, NaN]
\* when either is.
C6_RoundTripVisibleRows ==
    (ret.op = "numpy" /\ ret.a = "array" /\ arg.cls = "Instance") =>
        /\ ret.val.ok
        /\ Len(ret.val.val) = Len(arg.rows)
        /\ \A i \in 1..Len(arg.rows) :
              ret.val.val[i] =
                 IF isnan(arg.rows[i].x) \/ isnan(arg.rows[i].y)
                 THEN <<NaN, NaN>>
                 ELSE <<arg.rows[i].x, arg.rows[i].y>>

C6_Witness ==
    /\ ret.op = "numpy" /\ ret.a = "array" /\ arg.cls = "Instance"
    /\ \E i \in 1..Len(arg.rows) : isnan(arg.rows[i].y) /\ ~isnan(arg.rows[i].x)
    /\ \E i \in 1..Len(arg.rows) : ~isnan(arg.rows[i].y) /\ ~isnan(arg.rows[i].x)

(***************************************************************************)
(* The life of one PredictedInstance: made by from_numpy or by the         *)
(* constructor, then read and its from_predicted assigned.                 *)
(***************************************************************************)
\* Values handed to from_predicted.
FromPredictedInputs == {None, SamplePredictedInstance, SampleInstance}

FromPredictedKind(v) == IF v = None THEN "None" ELSE "not None"

InitPredicted ==
    /\ pa = None /\ pb = None
    /\ inst = None /\ other = None
    /\ arg = None
    /\ ret = NoRet

\* inst = PredictedInstance.from_numpy(points, point_scores, 0.0, skeleton)
CallPredictedFromNumpy ==
    /\ inst = None
    /\ \E sk \in Skeletons, points \in SeqsOf(SampleRows, 0, MaxNodes + 1),
          scores \in SeqsOf(Scores, 0, MaxNodes + 1) :
        LET r == PredictedInstance_from_numpy(NdArray(points), NdArray(scores), Num(0),
                                    sk, None, None)
        IN  /\ inst' = IF r.ok THEN r.val ELSE None
            /\ arg' = [skeleton |-> sk, points |-> points, scores |-> scores]
            /\ ret' = Outcome("from_numpy", "", r)
    /\ UNCHANGED <<pa, pb, other>>

\* inst = PredictedInstance(points={}, skeleton, from_predicted=fp)
CallNewWithFromPredicted ==
    /\ inst = None
    /\ \E sk \in Skeletons, fp \in FromPredictedInputs :
        LET r == PredictedInstance(Dict(<<>>), sk, None, fp, Num(0), Num(0))
        IN  /\ inst' = IF r.ok THEN r.val ELSE None
            /\ ret' = Outcome("new", FromPredictedKind(fp), r)
    /\ UNCHANGED <<pa, pb, other, arg>>

\* inst.from_predicted = fp
CallSetFromPredicted ==
    /\ inst # None
    /\ \E fp \in FromPredictedInputs :
        LET r == SetFromPredicted(inst, fp)
        IN  /\ inst' = r.self
            /\ ret' = Outcome("set from_predicted", FromPredictedKind(fp), r)
    /\ UNCHANGED <<pa, pb, other, arg>>

\* inst.numpy()
CallPredictedNumpy ==
    /\ inst # None
    /\ ret' = Result("numpy", Instance_numpy(inst))
    /\ UNCHANGED <<pa, pb, inst, other, arg>>

\* inst.n_visible
CallNVisible ==
    /\ inst # None
    /\ ret' = Result("n_visible", n_visible(inst))
    /\ UNCHANGED <<pa, pb, inst, other, arg>>

NextPredicted ==
    \/ CallPredictedFromNumpy
    \/ CallNewWithFromPredicted
    \/ CallSetFromPredicted
    \/ CallPredictedNumpy
    \/ CallNVisible

SpecPredicted == InitPredicted /\ [][NextPredicted]_vars

\* C7: a PredictedInstance's from_predicted is None in every reachable
\* state: constructing one with another value raises TypeError and gives
\* no object, assigning another value raises TypeError and leaves None.
C7_FromPredictedNone ==
    /\ [](inst # None => inst.from_predicted = None)
    /\ []((ret.op \in {"new", "set from_predicted"} /\ ret.kind = "not None") =>
             (~ret.ok /\ ret.err = "TypeError"))
    /\ []((ret.op \in {"new", "set from_predicted"} /\ ret.kind = "None") => ret.ok)
    /\ [][(ret'.op \in {"new", "set from_predicted"} /\ ~ret'.ok) => inst' = inst]_vars

C7_Witness ==
    /\ inst # None
    /\ ret.op = "set from_predicted" /\ ret.kind = "not None" /\ ~ret.ok

\* The inputs of from_numpy all have as many entries as the skeleton.
FullLength ==
    /\ arg # None
    /\ Len(arg.points) = Len(arg.skeleton.nodes)
    /\ Len(arg.scores) = Len(arg.skeleton.nodes)

C10_FromNumpyNoLengthCheck ==
    arg # None =>
        LET n == Len(arg.skeleton.nodes)
            k == Min(n, Min(Len(arg.points), Len(arg.scores)))
        IN  /\ inst # None
            /\ DOMAIN inst.points = NodeSet(arg.skeleton)
            /\ \A i \in 1..k :
                  inst.points[arg.skeleton.nodes[i]] =
                     PredictedPoint(arg.points[i].x, arg.points[i].y, TRUE, FALSE,
                                      arg.scores[i])
            /\ \A i \in (k + 1)..n :
                  inst.points[arg.skeleton.nodes[i]] =
                     PredictedPoint(NaN, NaN, FALSE, FALSE, Num(0))

C10_Witness ==
    /\ arg # None /\ inst # None
    /\ Len(arg.points) < Len(arg.skeleton.nodes)
    /\ Len(arg.points) > 0
    /\ Len(arg.scores) > Len(arg.skeleton.nodes)

====
